---- MODULE Spec2Model ----
(***************************************************************************)
(* State-machine model of the social-feed backend: routes/api/auth.js      *)
(* (login, current identity) and routes/api/posts.js (post CRUD, like,     *)
(* unlike, add/remove comment).  Every handler is split at its awaits on   *)
(* the document store: the steps between two awaits run without            *)
(* interleaving (single-threaded event loop), the awaits are where other   *)
(* requests get in.                                                        *)
(***************************************************************************)
EXTENDS Integers, Sequences, FiniteSets, Bags, TLC

----------------------------------------------------------------------------
(* Bounds of the model. *)

\* Requests that can be suspended at an await at once.
MaxInFlight == 2
\* Well-formed post ids a request can name.
MaxPosts == 2
\* Posts ever created (document ids are never reused).
MaxCreated == 1
\* Comments ever created (comment ids are never reused).
MaxComments == 2
\* Times the clock advances.
MaxTicks == 1

----------------------------------------------------------------------------
(* Program constants. *)

\* jwt.sign(..., { expiresIn: 36000 }, ...)
ExpiresIn == 36000

\* HTTP statuses the handlers send.
OK == 200
BadRequest == 400
Unauthorized == 401
NotFound == 404
ServerError == 500

----------------------------------------------------------------------------
(* Identities and credentials (registration is outside these routes).      *)

PostIds == 1..MaxPosts
CommentIds == 1..MaxComments

\* bcrypt: a one-way hash; compare(plain, hash) re-hashes and compares.
Hash(pw) == <<"bcrypt", pw>>

Compare(pw, hash) == Hash(pw) = hash

\* The User collection: it is only read by these routes.
UserDb ==
  { [id |-> "u1", email |-> "u1@x.com", password |-> Hash("pw1")],
    [id |-> "u2", email |-> "u2@x.com", password |-> Hash("pw2")] }

Users == { u.id : u \in UserDb }

\* What a login request may carry.  "bad" is not an email; "" is a missing
\* password.
EmailInputs == { "u1@x.com", "u2@x.com", "nobody@x.com", "bad" }
PasswordInputs == { "pw1", "pw2", "" }

\* check('email').isEmail()
IsEmail(e) == e # "bad"

\* check('password').exists()
Exists(pw) == pw # ""

\* User.findOne({ email }): the set of matches (empty when there is none).
FindOne(email) == { u \in UserDb : u.email = email }

\* User.findById(id)
FindUser(id) == { u \in UserDb : u.id = id }

----------------------------------------------------------------------------
(* Session tokens and the Session Guard.                                   *)

NoToken == [kind |-> "none", id |-> "", exp |-> 0, sig |-> FALSE]
Malformed == [kind |-> "malformed", id |-> "", exp |-> 0, sig |-> FALSE]

\* A signer that binds every token to one fixed identity.
SignFixed(id, now) == [kind |-> "jwt", id |-> "u1", exp |-> now + ExpiresIn, sig |-> TRUE]

\* jwt.sign({ user: { id } }, secret, { expiresIn }): a token signed with the
\* server's secret, expiring ExpiresIn after the time of signing.
Sign(id, now) == [kind |-> "jwt", id |-> id, exp |-> now + ExpiresIn, sig |-> TRUE]

\* The same payload signed with another key.
Forge(t) == [t EXCEPT !.sig = FALSE]

Unauthenticated == "unauthenticated"

\* The Session Guard: the bound identity, or Unauthenticated for a missing,
\* malformed, signature-invalid or expired token.
ResolveIdentity(tok, now) ==
  IF tok.kind # "jwt" THEN Unauthenticated
  ELSE IF ~tok.sig THEN Unauthenticated
  ELSE IF now >= tok.exp THEN Unauthenticated
  ELSE tok.id

----------------------------------------------------------------------------
(* Documents. *)

NoPost == [exists |-> FALSE, user |-> "", likes |-> <<>>, comments |-> <<>>]

\* new Post({ user: req.user.id, ... }): likes and comments default to [].
NewPost(uid) == [exists |-> TRUE, user |-> uid, likes |-> <<>>, comments |-> <<>>]

\* Array.prototype.push in its place: the new entry goes last.
Push(s, x) == s \o <<x>>

\* Array.prototype.unshift: the new entry goes first.
Unshift(s, x) == <<x>> \o s

\* An index lookup that answers the last matching entry (lastIndexOf).
IndexOfUserLast(s, uid) ==
  IF \E i \in 1..Len(s) : s[i].user = uid
  THEN (CHOOSE i \in 1..Len(s) :
          /\ s[i].user = uid
          /\ \A j \in (i + 1)..Len(s) : s[j].user # uid) - 1
  ELSE -1

\* An index lookup that always answers the head of the array.
IndexOfUserZero(s, uid) == 0

\* Array.prototype.indexOf on the mapped keys: the 0-based index of the first
\* entry whose user is uid, -1 when there is none.
IndexOfUser(s, uid) ==
  IF \E i \in 1..Len(s) : s[i].user = uid
  THEN (CHOOSE i \in 1..Len(s) :
          /\ s[i].user = uid
          /\ \A j \in 1..(i - 1) : s[j].user # uid) - 1
  ELSE -1

\* A removal that drops the last entry whatever the index.
Splice1Last(s, start) == IF s = <<>> THEN s ELSE SubSeq(s, 1, Len(s) - 1)

\* Array.prototype.splice(start, 1) with a 0-based start; a negative start
\* counts from the end of the array.
Splice1(s, start) ==
  LET at == IF start < 0
            THEN (IF Len(s) + start < 0 THEN 0 ELSE Len(s) + start)
            ELSE start
  IN  IF at >= Len(s) THEN s
      ELSE [i \in 1..(Len(s) - 1) |-> IF i <= at THEN s[i] ELSE s[i + 1]]

\* post.likes.filter((like) => like.user.toString() === uid).length
CountLikes(likes, uid) == Cardinality({ i \in 1..Len(likes) : likes[i].user = uid })

\* post.comments.find((comment) => comment.id === cid): the matches in order.
FindComment(comments, cid) == SelectSeq(comments, LAMBDA c : c.id = cid)

----------------------------------------------------------------------------
(* State. *)

VARIABLES
  posts,        \* the Post collection: document id -> document (NoPost: none)
  nextPost,     \* the id the next created post gets
  nextComment,  \* the id the next created comment gets
  removeIndex,  \* posts.js: the undeclared, module-wide removeIndex
  req,          \* the bag of requests suspended at an await
  resp,         \* the response being written out (NoResp: none)
  clock,        \* the time jwt reads
  alive         \* FALSE once an uncaught exception has ended the process

vars == <<posts, nextPost, nextComment, removeIndex, req, resp, clock, alive>>

NoResp == [op |-> "none", uid |-> "", status |-> 0, token |-> NoToken]

\* Ids a request may name: 0 is a string that is no ObjectId, the others are
\* well-formed ids, of a document or of none.
PostIdInputs == 0..MaxPosts
CommentIdInputs == 0..MaxComments
TextInputs == { "", "hi" }

\* The times at which a token a client holds can have been signed: login
\* depends on nothing these routes change, so a client can hold a token of
\* any identity signed at any past time, also from before this process
\* started (the secret is configuration).
SignTimes == { (k - 1) * ExpiresIn : k \in 0..(MaxTicks + 1) }

\* The tokens a client can send: none, garbage, one that login signed, or a
\* payload signed with a key that is not the server's.
TokenInputs ==
  {NoToken, Malformed}
    \cup { Sign(u, t) : u \in Users, t \in { t \in SignTimes : t <= clock } }
    \cup { Forge(Sign(u, clock)) : u \in Users }

Init ==
  /\ posts = [p \in PostIds |-> NoPost]
  /\ nextPost = 1
  /\ nextComment = 1
  /\ removeIndex = -1
  /\ req = EmptyBag
  /\ resp = NoResp
  /\ clock = 0
  /\ alive = TRUE

\* Post.findById(id): rejects with a CastError (kind 'ObjectId') for a string
\* that is no ObjectId, resolves to null when no document has the id.
CastError(pid) == pid \notin PostIds

FindById(pid) == IF pid \in PostIds THEN posts[pid] ELSE NoPost

\* The event loop runs one step at a time: a step starts when the process is
\* up and the previous step's response has been written out.
Ready == alive /\ resp = NoResp

\* res.status(s).send(...) / res.json(...)
Reply(op, uid, status) ==
  resp' = [op |-> op, uid |-> uid, status |-> status, token |-> NoToken]

\* The response is on the wire.
Flush ==
  /\ resp # NoResp
  /\ resp' = NoResp
  /\ UNCHANGED <<posts, nextPost, nextComment, removeIndex, req, clock, alive>>

\* A request suspended at an await: arr is the array of its loaded document
\* that it has modified (likes or comments).
Request(op, pc, uid, pid, cid, arr) ==
  [op |-> op, pc |-> pc, uid |-> uid, pid |-> pid, cid |-> cid, arr |-> arr,
   sent |-> FALSE, tok |-> NoToken]

\* The handler suspends at an await on the store.
Await(q) ==
  /\ BagCardinality(req) < MaxInFlight
  /\ req' = req (+) SetToBag({q})
  /\ resp' = NoResp

\* The suspended request q resumes and ends.
Resume(q) == req' = req (-) SetToBag({q})

Suspended(op, pc) == { q \in BagToSet(req) : q.op = op /\ q.pc = pc }

\* A save that inserts the document when no stored document has its id.
PersistUpsert(pid, path, arr) ==
  IF path = "likes"
  THEN [posts EXCEPT ![pid].likes = arr, ![pid].exists = TRUE]
  ELSE [posts EXCEPT ![pid].comments = arr, ![pid].exists = TRUE]

\* A save that merges: it keeps the stored entries its copy does not have.
PersistMerge(pid, path, arr) ==
  LET In(s, e) == \E i \in 1..Len(s) : s[i] = e
      Merge(stored) == arr \o SelectSeq(stored, LAMBDA e : ~In(arr, e))
  IN  IF ~posts[pid].exists THEN posts
      ELSE IF path = "likes"
      THEN [posts EXCEPT ![pid].likes = Merge(posts[pid].likes)]
      ELSE [posts EXCEPT ![pid].comments = Merge(posts[pid].comments)]

\* document.save() of a loaded document: an update of the stored document
\* with that id, never an insert.  It sets the path the handler modified to
\* the request's copy; nothing checks that the stored document is still the
\* one that was loaded (last writer wins).
Persist(pid, path, arr) ==
  IF ~posts[pid].exists THEN posts
  ELSE IF path = "likes" THEN [posts EXCEPT ![pid].likes = arr]
  ELSE [posts EXCEPT ![pid].comments = arr]

\* What save() reports when the document is gone: nothing (older mongoose) or
\* a DocumentNotFoundError, which the handler's catch turns into a 500.
SaveStatuses(pid) == IF posts[pid].exists THEN {OK} ELSE {OK, ServerError}

----------------------------------------------------------------------------
(* The Session Guard in front of a route: router.METHOD(path, auth, handler). *)

\* The identity the Session Guard resolves the token to.
Identity(tok) == ResolveIdentity(tok, clock)

Authenticated(tok) == Identity(tok) # Unauthenticated

\* The guard answers 401 and the handler never runs.
Reject(op) ==
  /\ Reply(op, "", Unauthorized)
  /\ UNCHANGED <<posts, nextPost, nextComment, removeIndex, req, clock, alive>>

----------------------------------------------------------------------------
(* routes/api/posts.js: the handlers, given req.user.id *)

\* POST api/posts
CreateHandler(uid, text) ==
  /\ IF text = ""
     THEN Reply("create", uid, BadRequest) /\ UNCHANGED <<posts, nextPost>>
     ELSE /\ nextPost <= MaxCreated
          /\ FindUser(uid) # {}
          /\ posts' = [posts EXCEPT ![nextPost] = NewPost(uid)]
          /\ nextPost' = nextPost + 1
          /\ Reply("create", uid, OK)
  /\ UNCHANGED <<nextComment, removeIndex, req, clock, alive>>

CreateRoute(tok) ==
  IF ~Authenticated(tok) THEN Reject("create")
  ELSE \E text \in TextInputs : CreateHandler(Identity(tok), text)

CreatePost == Ready /\ \E tok \in TokenInputs : CreateRoute(tok)

\* GET api/posts
ListHandler(uid) ==
  /\ Reply("list", uid, OK)
  /\ UNCHANGED <<posts, nextPost, nextComment, removeIndex, req, clock, alive>>

ListRoute(tok) ==
  IF ~Authenticated(tok) THEN Reject("list") ELSE ListHandler(Identity(tok))

ListPosts == Ready /\ \E tok \in TokenInputs : ListRoute(tok)

\* GET api/posts/:post_id
GetHandler(uid, pid) ==
  /\ IF CastError(pid) \/ ~FindById(pid).exists
     THEN Reply("get", uid, NotFound)
     ELSE Reply("get", uid, OK)
  /\ UNCHANGED <<posts, nextPost, nextComment, removeIndex, req, clock, alive>>

GetRoute(tok) ==
  IF ~Authenticated(tok) THEN Reject("get")
  ELSE \E pid \in PostIdInputs : GetHandler(Identity(tok), pid)

GetPost == Ready /\ \E tok \in TokenInputs : GetRoute(tok)

\* An ownership test that lets everybody through.
NotOwnerOff(post, uid) == FALSE

\* post.user.toString() !== req.user.id
NotOwner(post, uid) == post.user # uid

\* DELETE api/posts/:post_id, up to await post.remove()
DeleteHandler(uid, pid) ==
  LET post == FindById(pid) IN
  /\ IF CastError(pid) \/ ~post.exists
     THEN Reply("delete", uid, NotFound) /\ UNCHANGED req
     ELSE IF NotOwner(post, uid)
     THEN Reply("delete", uid, Unauthorized) /\ UNCHANGED req
     ELSE Await(Request("delete", "remove", uid, pid, 0, <<>>))
  /\ UNCHANGED <<posts, nextPost, nextComment, removeIndex, clock, alive>>

DeleteRoute(tok) ==
  IF ~Authenticated(tok) THEN Reject("delete")
  ELSE \E pid \in PostIdInputs : DeleteHandler(Identity(tok), pid)

DeletePost == Ready /\ \E tok \in TokenInputs : DeleteRoute(tok)

\* A removal without a filter on the id: it empties the collection.
RemoveAll(q) ==
  /\ posts' = [p \in PostIds |-> NoPost]
  /\ Resume(q)
  /\ Reply("delete", q.uid, OK)
  /\ UNCHANGED <<nextPost, nextComment, removeIndex, clock, alive>>

\* DELETE api/posts/:post_id, post.remove() and the confirmation
RemoveOf(q) ==
  /\ posts' = [posts EXCEPT ![q.pid] = NoPost]
  /\ Resume(q)
  /\ Reply("delete", q.uid, OK)
  /\ UNCHANGED <<nextPost, nextComment, removeIndex, clock, alive>>

DeleteRemove == Ready /\ \E q \in Suspended("delete", "remove") : RemoveOf(q)

\* A duplicate test that never finds a like.
AlreadyLikedOff(post, uid) == FALSE

\* A duplicate test that looks at the newest like only.
AlreadyLikedHead(post, uid) == post.likes # <<>> /\ post.likes[1].user = uid

\* post.likes.filter(...).length > 0
AlreadyLiked(post, uid) == CountLikes(post.likes, uid) > 0

\* PUT api/posts/like/:post_id, up to await post.save()
LikeHandler(uid, pid) ==
  LET post == FindById(pid) IN
  /\ IF CastError(pid) \/ ~post.exists
     THEN \* a CastError, or a TypeError on null.likes: the catch
          Reply("like", uid, ServerError) /\ UNCHANGED req
     ELSE IF AlreadyLiked(post, uid)
     THEN Reply("like", uid, BadRequest) /\ UNCHANGED req
     ELSE Await(Request("like", "save", uid, pid, 0,
                        Unshift(post.likes, [user |-> uid])))
  /\ UNCHANGED <<posts, nextPost, nextComment, removeIndex, clock, alive>>

\* The like route without the guard in front of it.
LikeRouteOpen(tok) == \E pid \in PostIdInputs : LikeHandler(tok.id, pid)

LikeRoute(tok) ==
  IF ~Authenticated(tok) THEN Reject("like")
  ELSE \E pid \in PostIdInputs : LikeHandler(Identity(tok), pid)

Like == Ready /\ \E tok \in TokenInputs : LikeRoute(tok)

\* await post.save(); res.json(...) of like, unlike, add and remove comment
SaveOf(q, path) ==
  /\ posts' = Persist(q.pid, path, q.arr)
  /\ Resume(q)
  /\ \E status \in SaveStatuses(q.pid) : Reply(q.op, q.uid, status)
  /\ UNCHANGED <<nextPost, nextComment, removeIndex, clock, alive>>

Save(op, path) == Ready /\ \E q \in Suspended(op, "save") : SaveOf(q, path)

\* PUT api/posts/like/:post_id, await post.save() and the response
LikeSave == Save("like", "likes")

\* post.likes.filter(...).length === 0
NotLiked(post, uid) == CountLikes(post.likes, uid) = 0

\* An unlike that splices at the removeIndex it finds, written by whichever
\* request ran last, before it writes its own.
UnlikeHandlerStale(uid, pid) ==
  LET post == FindById(pid) IN
  /\ IF CastError(pid) \/ ~post.exists
     THEN Reply("unlike", uid, ServerError) /\ UNCHANGED <<req, removeIndex>>
     ELSE IF NotLiked(post, uid)
     THEN Reply("unlike", uid, BadRequest) /\ UNCHANGED <<req, removeIndex>>
     ELSE /\ removeIndex' = IndexOfUser(post.likes, uid)
          /\ Await(Request("unlike", "save", uid, pid, 0,
                           Splice1(post.likes, removeIndex)))
  /\ UNCHANGED <<posts, nextPost, nextComment, clock, alive>>

\* PUT api/posts/unlike/:post_id, up to await post.save()
UnlikeHandler(uid, pid) ==
  LET post == FindById(pid) IN
  /\ IF CastError(pid) \/ ~post.exists
     THEN Reply("unlike", uid, ServerError) /\ UNCHANGED <<req, removeIndex>>
     ELSE IF NotLiked(post, uid)
     THEN Reply("unlike", uid, BadRequest) /\ UNCHANGED <<req, removeIndex>>
     ELSE /\ removeIndex' = IndexOfUser(post.likes, uid)
          /\ Await(Request("unlike", "save", uid, pid, 0,
                           Splice1(post.likes, removeIndex')))
  /\ UNCHANGED <<posts, nextPost, nextComment, clock, alive>>

UnlikeRoute(tok) ==
  IF ~Authenticated(tok) THEN Reject("unlike")
  ELSE \E pid \in PostIdInputs : UnlikeHandler(Identity(tok), pid)

Unlike == Ready /\ \E tok \in TokenInputs : UnlikeRoute(tok)

\* PUT api/posts/unlike/:post_id, await post.save() and the response
UnlikeSave == Save("unlike", "likes")

\* PUT api/posts/comment/:post_id, up to await post.save()
CommentHandler(uid, pid, text) ==
  LET post == FindById(pid) IN
  /\ IF text = ""
     THEN Reply("comment", uid, BadRequest) /\ UNCHANGED <<req, nextComment>>
     ELSE IF CastError(pid) \/ ~post.exists
     THEN Reply("comment", uid, ServerError) /\ UNCHANGED <<req, nextComment>>
     ELSE /\ nextComment <= MaxComments
          /\ FindUser(uid) # {}
          /\ nextComment' = nextComment + 1
          /\ Await(Request("comment", "save", uid, pid, nextComment,
                           Unshift(post.comments,
                                   [id |-> nextComment, user |-> uid])))
  /\ UNCHANGED <<posts, nextPost, removeIndex, clock, alive>>

CommentRoute(tok) ==
  IF ~Authenticated(tok) THEN Reject("comment")
  ELSE \E pid \in PostIdInputs, text \in TextInputs :
         CommentHandler(Identity(tok), pid, text)

AddComment == Ready /\ \E tok \in TokenInputs : CommentRoute(tok)

\* PUT api/posts/comment/:post_id, await post.save() and the response
AddCommentSave == Save("comment", "comments")

\* An authorship test that compares with the post's author.
NotPostOwner(post, comment, uid) == post.user # uid

\* comment.user.toString() !== req.user.id
NotCommenter(post, comment, uid) == comment.user # uid

\* A remove comment that looks the removal index up by the comment's id.
UncommentHandlerById(uid, pid, cid) ==
  LET post == FindById(pid)
      found == FindComment(post.comments, cid)
      at == CHOOSE i \in 1..Len(post.comments) : post.comments[i].id = cid
  IN  /\ IF CastError(pid) \/ ~post.exists
         THEN Reply("uncomment", uid, ServerError) /\ UNCHANGED <<req, removeIndex>>
         ELSE IF found = <<>>
         THEN Reply("uncomment", uid, NotFound) /\ UNCHANGED <<req, removeIndex>>
         ELSE IF NotCommenter(post, found[1], uid)
         THEN Reply("uncomment", uid, Unauthorized) /\ UNCHANGED <<req, removeIndex>>
         ELSE /\ removeIndex' = at - 1
              /\ Await(Request("uncomment", "save", uid, pid, cid,
                               Splice1(post.comments, removeIndex')))
      /\ UNCHANGED <<posts, nextPost, nextComment, clock, alive>>

\* DELETE api/posts/comment/:post_id/:comment_id, up to await post.save()
UncommentHandler(uid, pid, cid) ==
  LET post == FindById(pid)
      found == FindComment(post.comments, cid)
  IN  /\ IF CastError(pid) \/ ~post.exists
         THEN Reply("uncomment", uid, ServerError) /\ UNCHANGED <<req, removeIndex>>
         ELSE IF found = <<>>
         THEN Reply("uncomment", uid, NotFound) /\ UNCHANGED <<req, removeIndex>>
         ELSE IF NotCommenter(post, found[1], uid)
         THEN Reply("uncomment", uid, Unauthorized) /\ UNCHANGED <<req, removeIndex>>
         ELSE /\ removeIndex' = IndexOfUser(post.comments, uid)
              /\ Await(Request("uncomment", "save", uid, pid, cid,
                               Splice1(post.comments, removeIndex')))
      /\ UNCHANGED <<posts, nextPost, nextComment, clock, alive>>

UncommentRoute(tok) ==
  IF ~Authenticated(tok) THEN Reject("uncomment")
  ELSE \E pid \in PostIdInputs, cid \in CommentIdInputs :
         UncommentHandler(Identity(tok), pid, cid)

RemoveComment == Ready /\ \E tok \in TokenInputs : UncommentRoute(tok)

\* DELETE api/posts/comment/:post_id/:comment_id, await post.save() and the
\* response
RemoveCommentSave == Save("uncomment", "comments")

----------------------------------------------------------------------------
(* routes/api/auth.js *)

\* GET api/auth
WhoAmIHandler(uid) ==
  /\ Reply("whoami", uid, OK)
  /\ UNCHANGED <<posts, nextPost, nextComment, removeIndex, req, clock, alive>>

WhoAmIRoute(tok) ==
  IF ~Authenticated(tok) THEN Reject("whoami") ELSE WhoAmIHandler(Identity(tok))

GetAuth == Ready /\ \E tok \in TokenInputs : WhoAmIRoute(tok)

\* POST api/auth, up to the call of jwt.sign, which signs asynchronously
LoginRequest(email, password) ==
  LET found == FindOne(email)
      user == CHOOSE u \in found : TRUE
      isMatch == Compare(password, user.password)
  IN  /\ IF ~IsEmail(email) \/ ~Exists(password)
         THEN Reply("login", "", BadRequest) /\ UNCHANGED req
         ELSE IF found = {}
         THEN Reply("login", "", BadRequest) /\ UNCHANGED req
         ELSE \* if (!isMatch) { res.status(400).send(...) } has no return: the
              \* handler goes on to jwt.sign after a mismatch as after a match.
              /\ BagCardinality(req) < MaxInFlight
              /\ req' = req (+) SetToBag({
                   [Request("login", "sign", user.id, 0, 0, <<>>)
                      EXCEPT !.sent = ~isMatch, !.tok = Sign(user.id, clock)]})
              /\ IF isMatch THEN resp' = NoResp
                 ELSE \* the same body as for an unknown email
                      Reply("login", "", BadRequest)
      /\ UNCHANGED <<posts, nextPost, nextComment, removeIndex, clock, alive>>

Login ==
  Ready /\ \E email \in EmailInputs, password \in PasswordInputs :
             LoginRequest(email, password)

\* POST api/auth, the callback of jwt.sign: res.json({ token }).  It runs
\* after the handler's try has been left; when a response has been sent
\* already, res.json throws and nothing catches it.
LoginCallback(q) ==
  /\ IF q.sent
     THEN /\ alive' = FALSE
          /\ req' = (req (-) SetToBag({q})) (+) SetToBag({[q EXCEPT !.pc = "threw"]})
          /\ resp' = NoResp
     ELSE /\ resp' = [op |-> "login", uid |-> q.uid, status |-> OK, token |-> q.tok]
          /\ Resume(q)
          /\ UNCHANGED alive
  /\ UNCHANGED <<posts, nextPost, nextComment, removeIndex, clock>>

LoginSigned == Ready /\ \E q \in Suspended("login", "sign") : LoginCallback(q)

----------------------------------------------------------------------------
(* Time. *)

Tick ==
  /\ Ready
  /\ clock < MaxTicks * ExpiresIn
  /\ clock' = clock + ExpiresIn
  /\ UNCHANGED <<posts, nextPost, nextComment, removeIndex, req, resp, alive>>

----------------------------------------------------------------------------
(* The posts routes, behind the Session Guard. *)

Next ==
  \/ Flush
  \/ GetAuth
  \/ CreatePost
  \/ ListPosts
  \/ GetPost
  \/ DeletePost
  \/ DeleteRemove
  \/ Like
  \/ LikeSave
  \/ Unlike
  \/ UnlikeSave
  \/ AddComment
  \/ AddCommentSave
  \/ RemoveComment
  \/ RemoveCommentSave

Spec == Init /\ [][Next]_vars

\* The auth routes, with time passing.
AuthNext ==
  \/ Flush
  \/ Tick
  \/ Login
  \/ LoginSigned
  \/ GetAuth

AuthSpec == Init /\ [][AuthNext]_vars

\* The engagement routes on two posts that u1 and u2 created before.
FrameInit ==
  /\ posts = [p \in PostIds |-> IF p = 1 THEN NewPost("u1")
                                ELSE IF p = 2
                                THEN [NewPost("u2") EXCEPT
                                        !.comments = <<[id |-> 1, user |-> "u1"]>>]
                                ELSE NoPost]
  /\ nextPost = 3
  /\ nextComment = MaxComments
  /\ removeIndex = -1
  /\ req = EmptyBag
  /\ resp = NoResp
  /\ clock = 0
  /\ alive = TRUE

FrameNext ==
  \/ Flush
  \/ DeletePost
  \/ DeleteRemove
  \/ Like
  \/ LikeSave
  \/ Unlike
  \/ UnlikeSave
  \/ AddComment
  \/ AddCommentSave
  \/ RemoveComment
  \/ RemoveCommentSave

FrameSpec == FrameInit /\ [][FrameNext]_vars

----------------------------------------------------------------------------
(* Properties. *)

\* uid has an entry in s.
Has(s, uid) == \E i \in 1..Len(s) : s[i].user = uid

\* The step leaves the store, the suspended requests and the module-wide
\* state as they are.
NothingTouched == UNCHANGED <<posts, nextPost, nextComment, removeIndex, req>>

\* The step suspends one more request, q.
Suspends(q) == req' = req (+) SetToBag({q})

\* The times the clock can show.
ClockTimes == { k * ExpiresIn : k \in 0..MaxTicks }

\* s without its first entry of uid.
WithoutFirst(s, uid) ==
  LET i == CHOOSE k \in 1..Len(s) :
             s[k].user = uid /\ \A j \in 1..(k - 1) : s[j].user # uid
  IN  SubSeq(s, 1, i - 1) \o SubSeq(s, i + 1, Len(s))

\* C1: in every reachable state, under every interleaving of like, unlike,
\* add comment, remove comment and delete (concurrent likes of one identity
\* on one post included), the stored like sequence of every post holds each
\* userId at most once.
C1_LikesUnique ==
  \A p \in PostIds :
    \A i, j \in 1..Len(posts[p].likes) :
      i # j => posts[p].likes[i].user # posts[p].likes[j].user

\* C1's case: the like of an identity is stored while a second like request
\* of the same identity on the same post, which loaded the post before that,
\* is about to persist its copy.
C1_Witness ==
  \E q \in Suspended("like", "save") :
    /\ posts[q.pid].exists
    /\ Has(posts[q.pid].likes, q.uid)
    /\ Len(posts[q.pid].likes) = 2

\* C2 (as claimed): a login request that has answered InvalidCredential for
\* a wrong secret has stopped: it is not on its way through jwt.sign.
C2_MismatchStops ==
  \A q \in BagToSet(req) : q.op = "login" => ~q.sent

C4_OnlyAuthorDeletes ==
  [][/\ \A u \in Users, pid \in PostIds :
          ( /\ posts[pid].exists
            /\ posts[pid].user # u
            /\ DeleteHandler(u, pid) )
          => resp'.status = Unauthorized /\ NothingTouched
     /\ \A p \in PostIds :
          posts[p].exists =>
            IF posts'[p].exists
            THEN posts'[p].user = posts[p].user
            ELSE \E q \in Suspended("delete", "remove") :
                   q.pid = p /\ q.uid = posts[p].user /\ RemoveOf(q)]_vars

\* C4's case: an identity that did not write the post has just been refused
\* its deletion, and the post is there with a like and a comment.
C4_Witness ==
  /\ resp.op = "delete" /\ resp.status = Unauthorized /\ resp.uid # ""
  /\ \E p \in PostIds :
       /\ posts[p].exists
       /\ posts[p].user # resp.uid
       /\ posts[p].likes # <<>>
       /\ posts[p].comments # <<>>

\* C5: a like request persists the like of its identity at the head of the
\* post's likes; a like request of that identity that loads the post after
\* that is refused as a duplicate and leaves the stored likes as they are.
C5_DuplicateLike ==
  [][/\ \A q \in Suspended("like", "save") :
          (posts[q.pid].exists /\ SaveOf(q, "likes"))
          => /\ posts'[q.pid].likes = q.arr
             /\ q.arr[1].user = q.uid
     /\ \A u \in Users, pid \in PostIds :
          ( /\ posts[pid].exists
            /\ Has(posts[pid].likes, u)
            /\ LikeHandler(u, pid) )
          => resp'.status = BadRequest /\ NothingTouched]_vars

\* C5's case: an identity whose like is stored, after another identity's,
\* has just been refused a second like.
C5_Witness ==
  /\ resp.op = "like" /\ resp.status = BadRequest
  /\ \E p \in PostIds :
       /\ posts[p].exists
       /\ Len(posts[p].likes) = 2
       /\ posts[p].likes[2].user = resp.uid

\* C6: like then unlike, with nothing in between, gives back the likes L the
\* like request loaded: the like request persists [u] + L; an unlike request
\* of u that loads [u] + L persists L, entry for entry.
C6_LikeUnlikeRestores ==
  [][/\ \A u \in Users, pid \in PostIds :
          ( /\ posts[pid].exists
            /\ ~Has(posts[pid].likes, u)
            /\ LikeHandler(u, pid) )
          => Suspends(Request("like", "save", u, pid, 0,
                              <<[user |-> u]>> \o posts[pid].likes))
     /\ \A q \in Suspended("like", "save") \cup Suspended("unlike", "save") :
          (posts[q.pid].exists /\ SaveOf(q, "likes"))
          => posts'[q.pid].likes = q.arr
     /\ \A u \in Users, pid \in PostIds :
          ( /\ posts[pid].exists
            /\ posts[pid].likes # <<>>
            /\ posts[pid].likes[1].user = u
            /\ ~Has(Tail(posts[pid].likes), u)
            /\ UnlikeHandler(u, pid) )
          => Suspends(Request("unlike", "save", u, pid, 0,
                              Tail(posts[pid].likes)))]_vars

\* C6's case: an unlike request has loaded a post whose newest like is its
\* identity's, after another identity's, and is about to persist the likes
\* without it.
C6_Witness ==
  \E q \in Suspended("unlike", "save") :
    /\ posts[q.pid].exists
    /\ Len(posts[q.pid].likes) = 2
    /\ posts[q.pid].likes[1].user = q.uid
    /\ q.arr = Tail(posts[q.pid].likes)

C8_LoginTokenResolves ==
  [][/\ \A email \in EmailInputs, password \in PasswordInputs :
          \A u \in UserDb :
            ( /\ u.email = email
              /\ Compare(password, u.password)
              /\ LoginRequest(email, password) )
            => /\ resp' = NoResp
               /\ \E q \in BagToSet(req') :
                    /\ Suspends(q)
                    /\ q.op = "login" /\ q.pc = "sign" /\ ~q.sent
                    /\ q.uid = u.id
     /\ \A q \in Suspended("login", "sign") :
          (~q.sent /\ LoginCallback(q))
          => /\ resp'.op = "login" /\ resp'.status = OK
             /\ Resume(q)
             /\ resp'.token.id = q.uid
             /\ \A now \in ClockTimes \cup {clock, resp'.token.exp - 1} :
                  now < resp'.token.exp
                  => ResolveIdentity(resp'.token, now) = q.uid]_vars

\* C8's case: a login has just been answered with a token, at a time at
\* which an earlier token has expired.
C8_Witness ==
  /\ resp.op = "login" /\ resp.status = OK
  /\ resp.token.id = resp.uid
  /\ clock > 0

\* C9 (as claimed): a like request of an authenticated identity on a
\* well-formed id that no post has is answered NotFound and changes no post.
C9_LikeMissingIs404 ==
  [][\A u \in Users, pid \in PostIds :
       (~posts[pid].exists /\ LikeHandler(u, pid))
       => resp'.status = NotFound /\ posts' = posts]_vars

\* C10: an unlike request of an identity with no like on the post is
\* refused as InvalidState and leaves the stored likes as they are; with a
\* like, it persists the likes it loaded without the first entry of that
\* identity: one entry fewer, the others in their order.
C10_Unlike ==
  [][/\ \A u \in Users, pid \in PostIds :
          (posts[pid].exists /\ UnlikeHandler(u, pid))
          => IF ~Has(posts[pid].likes, u)
             THEN resp'.status = BadRequest /\ NothingTouched
             ELSE /\ resp' = NoResp
                  /\ Suspends(Request("unlike", "save", u, pid, 0,
                                      WithoutFirst(posts[pid].likes, u)))
     /\ \A q \in Suspended("unlike", "save") :
          (posts[q.pid].exists /\ SaveOf(q, "likes"))
          => posts'[q.pid].likes = q.arr]_vars

\* C10's case: an unlike has just been persisted that took the like of its
\* identity from behind another identity's like, which is still there.
C10_Witness ==
  /\ resp.op = "unlike" /\ resp.status = OK
  /\ \E p \in PostIds :
       /\ posts[p].exists
       /\ Len(posts[p].likes) = 1
       /\ posts[p].likes[1].user # resp.uid

\* C11 (as claimed): a login with a known identifier and a wrong secret has
\* the outcome of a login with an unknown identifier: from the same state,
\* the step it takes is a step the login with the unknown identifier and
\* the same secret takes (the same response, nothing left to run, the server
\* up).
C11_FailureIndistinguishable ==
  [][\A u \in UserDb, password \in PasswordInputs :
       ( /\ Exists(password)
         /\ ~Compare(password, u.password)
         /\ LoginRequest(u.email, password) )
       => \E email \in EmailInputs :
            /\ IsEmail(email)
            /\ FindOne(email) = {}
            /\ LoginRequest(email, password)]_vars

\* C12 (as claimed): no request answers twice and no error leaves a handler
\* uncaught: the process is up in every reachable state, and no callback has
\* thrown outside its handler's catch.
C12_FailuresHandled ==
  /\ alive
  /\ \A q \in BagToSet(req) : q.pc # "threw"

\* C13: a lost update is reachable with two like requests of two identities
\* on one post.  When the like of v has been persisted on top of the likes
\* L, and a like request of another identity u that loaded the same L
\* persists its copy, that request succeeds too and the stored likes become
\* [u] + L: the like of v is gone.
C13_LostUpdate ==
  [][\A q \in Suspended("like", "save") :
       ( /\ posts[q.pid].exists
         /\ posts[q.pid].likes # <<>>
         /\ posts[q.pid].likes[1].user # q.uid
         /\ Tail(posts[q.pid].likes) = Tail(q.arr)
         /\ SaveOf(q, "likes") )
       => /\ resp' = [op |-> "like", uid |-> q.uid, status |-> OK, token |-> NoToken]
          /\ posts'[q.pid].likes = <<[user |-> q.uid]>> \o Tail(posts[q.pid].likes)
          /\ ~Has(posts'[q.pid].likes, posts[q.pid].likes[1].user)]_vars

\* C13's case: the like request of v has just been answered with success,
\* its like is stored on top of L, and the like request of u, which loaded
\* the same L, is about to persist [u] + L.
C13_Witness ==
  \E q \in Suspended("like", "save") :
    /\ resp.op = "like" /\ resp.status = OK /\ resp.uid # q.uid
    /\ posts[q.pid].exists
    /\ posts[q.pid].likes # <<>>
    /\ posts[q.pid].likes[1].user = resp.uid
    /\ Tail(posts[q.pid].likes) = Tail(q.arr)
    /\ q.arr[1].user = q.uid

\* The 0-based index of the first entry of uid in s.
OwnIndex(s, uid) ==
  (CHOOSE k \in 1..Len(s) :
     s[k].user = uid /\ \A j \in 1..(k - 1) : s[j].user # uid) - 1

\* s without the entry at the 0-based index i.
RemoveAt(s, i) == SubSeq(s, 1, i) \o SubSeq(s, i + 2, Len(s))

\* C14: whatever removeIndex holds when a request starts, an unlike or a
\* remove comment that gets to its splice removes the entry at the index it
\* computed itself from the copy it loaded, and leaves that index in
\* removeIndex; the persists, which run after a suspension, do not read
\* removeIndex and do not write it.
C14_OwnRemoveIndex ==
  [][/\ \A u \in Users, pid \in PostIds :
          ( /\ posts[pid].exists
            /\ Has(posts[pid].likes, u)
            /\ UnlikeHandler(u, pid) )
          => /\ removeIndex' = OwnIndex(posts[pid].likes, u)
             /\ Suspends(Request("unlike", "save", u, pid, 0,
                                 RemoveAt(posts[pid].likes, removeIndex')))
     /\ \A u \in Users, pid \in PostIds, cid \in CommentIds :
          ( /\ posts[pid].exists
            /\ FindComment(posts[pid].comments, cid) # <<>>
            /\ FindComment(posts[pid].comments, cid)[1].user = u
            /\ UncommentHandler(u, pid, cid) )
          => /\ removeIndex' = OwnIndex(posts[pid].comments, u)
             /\ Suspends(Request("uncomment", "save", u, pid, cid,
                                 RemoveAt(posts[pid].comments, removeIndex')))
     /\ \A q \in Suspended("unlike", "save") :
          SaveOf(q, "likes")
          => /\ removeIndex' = removeIndex
             /\ posts[q.pid].exists => posts'[q.pid].likes = q.arr
     /\ \A q \in Suspended("uncomment", "save") :
          SaveOf(q, "comments")
          => /\ removeIndex' = removeIndex
             /\ posts[q.pid].exists => posts'[q.pid].comments = q.arr]_vars

\* C14's case: an unlike request is suspended with the copy it spliced at its
\* own index, and removeIndex has since been overwritten with another index
\* by another request.
C14_Witness ==
  \E q \in Suspended("unlike", "save") :
    /\ posts[q.pid].exists
    /\ Has(posts[q.pid].likes, q.uid)
    /\ q.arr = RemoveAt(posts[q.pid].likes, OwnIndex(posts[q.pid].likes, q.uid))
    /\ removeIndex # OwnIndex(posts[q.pid].likes, q.uid)
    /\ removeIndex >= 0

\* C15: a remove comment that passes its checks takes exactly one entry out
\* of the comments it loaded, the first one whose author is the caller: the
\* copy it persists is one entry shorter and has the other entries in their
\* order; the persist stores that copy and answers with success.
C15_RemovesFirstOfCaller ==
  [][/\ \A u \in Users, pid \in PostIds, cid \in CommentIds :
          LET c == posts[pid].comments IN
          ( /\ posts[pid].exists
            /\ FindComment(c, cid) # <<>>
            /\ FindComment(c, cid)[1].user = u
            /\ UncommentHandler(u, pid, cid) )
          => \E q \in BagToSet(req'), k \in 1..Len(c) :
               /\ Suspends(q)
               /\ q.op = "uncomment" /\ q.pc = "save" /\ q.uid = u /\ q.pid = pid
               /\ c[k].user = u
               /\ \A j \in 1..(k - 1) : c[j].user # u
               /\ Len(q.arr) = Len(c) - 1
               /\ \A i \in 1..Len(q.arr) :
                    q.arr[i] = IF i < k THEN c[i] ELSE c[i + 1]
     /\ \A q \in Suspended("uncomment", "save") :
          (posts[q.pid].exists /\ SaveOf(q, "comments"))
          => /\ resp'.op = "uncomment" /\ resp'.status = OK
             /\ posts'[q.pid].comments = q.arr
             /\ posts'[q.pid].likes = posts[q.pid].likes]_vars

\* C15's case: a remove comment has just been persisted and answered with
\* success; of the two comments of the post, the caller's is gone and the
\* other identity's comment is left.
C15_Witness ==
  /\ resp.op = "uncomment" /\ resp.status = OK
  /\ nextComment = MaxComments + 1
  /\ \E p \in PostIds :
       /\ posts[p].exists
       /\ Len(posts[p].comments) = 1
       /\ posts[p].comments[1].user # resp.uid

\* C16: remove comment can delete the wrong comment.  When the caller wrote
\* the comment cid and a newer comment of the caller stands before it, the
\* request passes its checks and takes that newer comment out of its copy,
\* which keeps the comment cid; the persist of such a copy succeeds and the
\* comment cid is still in the post.
C16_WrongCommentRemoved ==
  [][/\ \A u \in Users, pid \in PostIds, cid \in CommentIds :
          LET c == posts[pid].comments IN
          ( /\ posts[pid].exists
            /\ FindComment(c, cid) # <<>>
            /\ FindComment(c, cid)[1].user = u
            /\ c[OwnIndex(c, u) + 1].id # cid
            /\ UncommentHandler(u, pid, cid) )
          => \E q \in BagToSet(req') :
               /\ Suspends(q)
               /\ q.op = "uncomment" /\ q.pc = "save" /\ q.cid = cid
               /\ Len(q.arr) = Len(c) - 1
               /\ FindComment(q.arr, cid) # <<>>
               /\ FindComment(q.arr, c[OwnIndex(c, u) + 1].id) = <<>>
     /\ \A q \in Suspended("uncomment", "save") :
          ( /\ posts[q.pid].exists
            /\ FindComment(q.arr, q.cid) # <<>>
            /\ SaveOf(q, "comments") )
          => /\ resp'.op = "uncomment" /\ resp'.status = OK
             /\ FindComment(posts'[q.pid].comments, q.cid) # <<>>]_vars

\* C16's case: the caller has two comments on the post and has passed the
\* checks of a remove comment for the older one; the copy about to be
\* persisted has lost the newer one and kept the one that was to go.
C16_Witness ==
  \E q \in Suspended("uncomment", "save") :
    /\ posts[q.pid].exists
    /\ Len(posts[q.pid].comments) = 2
    /\ \A i \in 1..2 : posts[q.pid].comments[i].user = q.uid
    /\ posts[q.pid].comments[2].id = q.cid
    /\ q.arr = <<posts[q.pid].comments[2]>>

\* C17: a like that passes its checks puts the caller's Like before the
\* likes it loaded, an add comment puts the new Comment (with the next
\* comment id) before the comments it loaded, both leaving the loaded entries
\* in their order; the persist stores that sequence and answers with
\* success.  Comment ids grow with the time of creation, and the stored
\* comments of every post are in descending id order: most recent first.
C17_Prepends ==
  /\ [][/\ \A u \in Users, pid \in PostIds :
             ( /\ posts[pid].exists
               /\ ~Has(posts[pid].likes, u)
               /\ LikeHandler(u, pid) )
             => \E q \in BagToSet(req') :
                  /\ Suspends(q)
                  /\ q.op = "like" /\ q.pc = "save" /\ q.uid = u /\ q.pid = pid
                  /\ Head(q.arr) = [user |-> u]
                  /\ Tail(q.arr) = posts[pid].likes
        /\ \A u \in Users, pid \in PostIds :
             ( /\ posts[pid].exists
               /\ CommentHandler(u, pid, "hi") )
             => \E q \in BagToSet(req') :
                  /\ Suspends(q)
                  /\ q.op = "comment" /\ q.pc = "save" /\ q.uid = u /\ q.pid = pid
                  /\ Head(q.arr) = [id |-> nextComment, user |-> u]
                  /\ Tail(q.arr) = posts[pid].comments
                  /\ nextComment' > nextComment
        /\ \A q \in Suspended("like", "save") :
             (posts[q.pid].exists /\ SaveOf(q, "likes"))
             => resp'.status = OK /\ posts'[q.pid].likes = q.arr
        /\ \A q \in Suspended("comment", "save") :
             (posts[q.pid].exists /\ SaveOf(q, "comments"))
             => resp'.status = OK /\ posts'[q.pid].comments = q.arr]_vars
  /\ [](\A p \in PostIds :
          \A i, j \in 1..Len(posts[p].comments) :
            i < j => posts[p].comments[i].id > posts[p].comments[j].id)

\* C17's case: an add comment has just been persisted on top of an earlier
\* comment, and the post has two likes, the newer one first.
C17_Witness ==
  /\ resp.op = "comment" /\ resp.status = OK
  /\ \E p \in PostIds :
       /\ posts[p].exists
       /\ Len(posts[p].comments) = 2
       /\ posts[p].comments[1].user = resp.uid
       /\ Len(posts[p].likes) = 2

\* C18: operations on different posts do not interfere.  A step that changes
\* a post (its likes, its comments, its author or its existence) is the
\* persist of a like, unlike, add comment or remove comment request on that
\* post, or the removal by a delete request on that post: a request on post
\* P, however it is interleaved with requests on other posts, leaves every
\* other post as it is, and the steps before a request's persist change no
\* post at all.
C18_Frame ==
  [][/\ \A p \in PostIds :
          posts'[p] # posts[p]
          => \E q \in BagToSet(req) :
               /\ q.pid = p
               /\ Resume(q)
               /\ \/ q.pc = "remove" /\ q.op = "delete"
                  \/ q.pc = "save" /\ q.op \in {"like", "unlike", "comment", "uncomment"}
     /\ \A q \in BagToSet(req) :
          Resume(q) => \A p \in PostIds \ {q.pid} : posts'[p] = posts[p]
     /\ (\A q \in BagToSet(req) : ~Resume(q)) => posts' = posts]_vars

\* C18's case: two posts with likes and comments; a like has just been
\* persisted on one of them while a request on the other one, which loaded
\* it before, is suspended.
C18_Witness ==
  /\ resp.op = "like" /\ resp.status = OK
  /\ \E p, o \in PostIds :
       /\ p # o
       /\ posts[p].exists /\ posts[o].exists
       /\ posts[p].likes # <<>> /\ posts[p].likes[1].user = resp.uid
       /\ posts[o].likes # <<>> /\ posts[o].comments # <<>>
       /\ \E q \in BagToSet(req) : q.pid = o /\ q.pc = "save"

====
